---- MODULE Spec2Model ----
(***************************************************************************)
(* Claude Code Countdown: the time resolver of TimeInput.tsx               *)
(* (parseTimeString, validateAndParse, and the page's handleTimeChange)    *)
(* and the notification scheduler of twilio.ts                             *)
(* (scheduleAccessNotifications).                                          *)
(*                                                                         *)
(* Instants are JavaScript Date values: milliseconds since the epoch.      *)
(* A nullable value is a sequence: <<>> is null, <<v>> holds v.            *)
(* An input string is a sequence of one-character strings.                 *)
(***************************************************************************)
EXTENDS Integers, Sequences, FiniteSets, TLC

----------------------------------------------------------------------------
(* Bounds of the model *)

\* the wall clock is drawn from the days 0..MaxDay of the epoch
MaxDay == 1

\* a run of blanks in a generated input string has at most MaxPad blanks
MaxPad == 1

----------------------------------------------------------------------------
(* Time arithmetic of Date (UTC, milliseconds) *)

MsPerMinute == 60 * 1000
MsPerHour == 60 * MsPerMinute
MsPerDay == 24 * MsPerHour

Null == <<>>
Some(v) == <<v>>
Get(d) == d[1]

\* Date.UTC(now.getUTCFullYear(), now.getUTCMonth(), now.getUTCDate(), h, m, 0)
DateUTC(now, hours, minutes) ==
    (now - (now % MsPerDay)) + hours * MsPerHour + minutes * MsPerMinute

\* d.setUTCDate(d.getUTCDate() + 1): the same time of day, one calendar day on
addOneUTCDate(d) == d + MsPerDay

----------------------------------------------------------------------------
(* Strings *)

Digits == {"0", "1", "2", "3", "4", "5", "6", "7", "8", "9"}
DigitString == <<"0", "1", "2", "3", "4", "5", "6", "7", "8", "9">>
digitValue(c) == (CHOOSE i \in 1..10 : DigitString[i] = c) - 1

\* \s of the regular expressions and of String.prototype.trim
isWhitespace(c) == c \in {" ", "\t"}

lowerChar(c) ==
    CASE c = "A" -> "a"
      [] c = "P" -> "p"
      [] c = "M" -> "m"
      [] c = "X" -> "x"
      [] OTHER -> c

toLowerCase(s) == [i \in 1..Len(s) |-> lowerChar(s[i])]

RECURSIVE trimStart(_)
trimStart(s) ==
    IF s /= <<>> /\ isWhitespace(Head(s)) THEN trimStart(Tail(s)) ELSE s

RECURSIVE trimEnd(_)
trimEnd(s) ==
    IF s /= <<>> /\ isWhitespace(s[Len(s)])
    THEN trimEnd(SubSeq(s, 1, Len(s) - 1))
    ELSE s

trim(s) == trimEnd(trimStart(s))

\* s.replace(/\s+/g, '')
removeWhitespace(s) == SelectSeq(s, LAMBDA c : ~isWhitespace(c))

\* parseInt(s, 10) of a string of decimal digits
RECURSIVE parseInt(_)
parseInt(s) ==
    IF s = <<>> THEN 0
    ELSE 10 * parseInt(SubSeq(s, 1, Len(s) - 1)) + digitValue(s[Len(s)])

----------------------------------------------------------------------------
(* parseTimeString *)

\* input.trim().toLowerCase().replace(/\s+/g, '')
cleanedTrimOnly(input) == toLowerCase(trim(input))
cleaned(input) == removeWhitespace(toLowerCase(trim(input)))

\* \s*(am|pm)$ with the i flag, on the rest of the string
periodTail(r) ==
    LET t == toLowerCase(trimStart(r))
    IN  IF t = <<"a", "m">> \/ t = <<"p", "m">> THEN Some(t) ELSE Null

\* the match of ^(\d{1,2})(?::(\d{2}))?\s*(am|pm)$ whose first group has k digits
matchWith(s, k) ==
    IF Len(s) >= k /\ \A i \in 1..k : s[i] \in Digits
    THEN LET rest == SubSeq(s, k + 1, Len(s))
             hasMinutes == /\ Len(rest) >= 3
                           /\ rest[1] = ":"
                           /\ rest[2] \in Digits
                           /\ rest[3] \in Digits
                           /\ periodTail(SubSeq(rest, 4, Len(rest))) /= Null
         IN  IF hasMinutes
             THEN Some([g1 |-> SubSeq(s, 1, k), g2 |-> SubSeq(rest, 2, 3),
                        g3 |-> Get(periodTail(SubSeq(rest, 4, Len(rest))))])
             ELSE IF periodTail(rest) /= Null
             THEN Some([g1 |-> SubSeq(s, 1, k), g2 |-> <<>>,
                        g3 |-> Get(periodTail(rest))])
             ELSE Null
    ELSE Null

\* cleaned.match(...): the greedy \d{1,2} takes two digits first, then one
regexMatch(s) ==
    IF matchWith(s, 2) /= Null THEN matchWith(s, 2) ELSE matchWith(s, 1)

\* if (hours < 1 || hours > 12) return null; if (minutes < 0 || minutes > 59) return null
rangeOkWide(hours, minutes) ==
    ~(hours < 1 \/ hours > 23) /\ ~(minutes < 0 \/ minutes > 99)
rangeOk(hours, minutes) ==
    ~(hours < 1 \/ hours > 12) /\ ~(minutes < 0 \/ minutes > 59)

\* the conversion to the 24-hour clock
to24HourNoNoon(hours, period) ==
    IF period = <<"a", "m">> THEN hours ELSE hours + 12
to24Hour(hours, period) ==
    IF period = <<"a", "m">>
    THEN (IF hours = 12 THEN 0 ELSE hours)
    ELSE (IF hours /= 12 THEN hours + 12 ELSE hours)

parseTimeString(input) ==
    LET match == regexMatch(cleaned(input))
    IN  IF match = Null THEN Null
        ELSE LET hours == parseInt(Get(match).g1)
                 minutes == IF Get(match).g2 /= <<>> THEN parseInt(Get(match).g2) ELSE 0
                 period == toLowerCase(Get(match).g3)
             IN  IF ~rangeOk(hours, minutes) THEN Null
                 ELSE Some([hours |-> to24Hour(hours, period), minutes |-> minutes])

----------------------------------------------------------------------------
(* State *)

VARIABLES
    clock,              \* the wall clock read by new Date()
    \* TimeInput component
    timeString,         \* useState('') of the text field
    error,              \* useState('') of the validation message
    isValid,            \* useState(false)
    debounce,           \* TRUE while the 300 ms timer of the effect is pending
    debounceDue,        \* the instant the pending timer is due, or Null
    parsed,             \* the local parsed of the last validateAndParse, or Null
    now,                \* the local now of the last validateAndParse, or Null
    \* Home page
    targetTime,         \* useState<Date | null>(null)
    isTimeValid,        \* useState(false)
    isCountdownActive,  \* useState(false)
    phoneNumber,        \* useState('')
    isPhoneValid,       \* useState(false)
    isScheduling,       \* useState(false)
    smsStatus,          \* useState({type: null, message: ''})
    fetchPending,       \* TRUE while the fetch of handleStartCountdown is awaited
    sent,               \* the body and the instant of the last fetch, or Null
    \* CountdownTimer component
    timeRemaining,      \* useState<TimeRemaining | null>(null)
    hasCompleted,       \* useState(false)
    completions,        \* the targets onComplete has been called for since the page loaded
    \* PhoneInput component and the browser's localStorage
    phone,              \* useState('')
    isEditing,          \* useState(false)
    hasCachedPhone,     \* useState(false)
    localStorage,       \* the item claude_countdown_phone, or Null
    \* route.ts: one request to POST /api/schedule-sms
    body,               \* the body of the request
    routePc,            \* where the handler stands
    response,           \* the response returned, or Null
    offsetChange,       \* the change of the server's UTC offset over the next 7 days
    \* twilio.ts: configuration and one call of scheduleAccessNotifications
    accountSid,         \* TRUE when TWILIO_ACCOUNT_SID is set
    authToken,          \* TRUE when TWILIO_AUTH_TOKEN is set
    messagingServiceSid,\* TRUE when TWILIO_MESSAGING_SERVICE_SID is set
    accessTime,         \* params.accessTime of the call, or Null
    pc,                 \* where the call stands
    scheduleNow,        \* the local now of the call
    fiveMinutesBefore,  \* the local fiveMinutesBefore of the call
    minimumScheduleTime,\* the local minimumScheduleTime of the call
    messageIds,         \* the local messageIds
    scheduledMessages,  \* the local scheduledMessages
    created,            \* the calls of client.messages.create made so far
    accepted,           \* the messages the provider has accepted
    result              \* the ScheduleResult returned, or Null

timeInputVars == <<timeString, error, isValid, debounce, debounceDue, parsed, now>>
homeVars == <<targetTime, isTimeValid, isCountdownActive>>
smsVars == <<phoneNumber, isPhoneValid, isScheduling, smsStatus, fetchPending, sent>>
phoneVars == <<phone, isEditing, hasCachedPhone, localStorage>>
routeVars == <<body, routePc, response, offsetChange>>
countdownVars == <<timeRemaining, hasCompleted, completions>>
configVars == <<accountSid, authToken, messagingServiceSid>>
callVars == <<accessTime, pc, scheduleNow, fiveMinutesBefore, minimumScheduleTime,
              messageIds, scheduledMessages, created, accepted, result>>
vars == <<clock, timeInputVars, homeVars, smsVars, phoneVars, countdownVars, routeVars,
         configVars,
          callVars>>

----------------------------------------------------------------------------
(* Inputs *)

\* times of day of the wall clock, in minutes after midnight
ClockMinutes == {0, 12 * 60, 19 * 60 + 55, 20 * 60, 20 * 60 + 5, 23 * 60 + 59}

\* the wall clock: a day, a minute of the day, and 0 or 1 ms into the minute
Clocks ==
    {d * MsPerDay + m * MsPerMinute + ms : d \in 0..MaxDay, m \in ClockMinutes, ms \in {0, 1}}

Pad(n) == [i \in 1..n |-> " "]

HourTexts ==
    {<<>>, <<"0">>, <<"1">>, <<"8">>, <<"0", "8">>, <<"1", "2">>, <<"1", "3">>,
     <<"2", "0">>}

MinuteTexts ==
    {<<>>, <<":", "0", "0">>, <<":", "5", "9">>, <<":", "7", "5">>, <<":", "5">>}

MeridiemTexts ==
    {<<>>, <<"a", "m">>, <<"p", "m">>, <<"A", "M">>, <<"P", "M">>, <<"p", "m", "x">>}

\* strings with blanks inside a token, a tab, a seconds field, a word after
OddInputs ==
    {<<"\t">>, <<"1", " ", "2", "p", "m">>, <<"8", "p", " ", "M">>,
     <<"8", ":", "0", "0", ":", "0", "0", "p", "m">>,
     <<"8", "\t", "P", "M">>, <<"8", ":", " ", "3", "0", "a", "m">>,
     <<"1", "2", "3", "p", "m">>, <<"1", ":", "0", "0", "0", "p", "m">>,
     <<"8", "p", "m", " ", "X">>, <<"p", "m">>, <<":", "3", "0", "p", "m">>}

Inputs ==
    {Pad(a) \o h \o m \o Pad(b) \o p \o Pad(c) :
        a \in 0..MaxPad, b \in 0..MaxPad, c \in {0, MaxPad},
        h \in HourTexts, m \in MinuteTexts, p \in MeridiemTexts}
    \cup OddInputs

----------------------------------------------------------------------------
(* TimeInput.validateAndParse and Home.handleTimeChange *)

FormatError == "Please enter time in format: HH:MM AM/PM (e.g., 2:30 PM)"

\* targetDate of validateAndParse: today's time of day, or tomorrow's when passed
targetDateStrict(hm, n) ==
    LET targetDate == DateUTC(n, hm.hours, hm.minutes)
    IN  IF targetDate < n THEN addOneUTCDate(targetDate) ELSE targetDate
targetDateTwice(hm, n) ==
    LET targetDate == DateUTC(n, hm.hours, hm.minutes)
    IN  IF targetDate <= n THEN addOneUTCDate(addOneUTCDate(targetDate)) ELSE targetDate
targetDateOf(hm, n) ==
    LET targetDate == DateUTC(n, hm.hours, hm.minutes)
    IN  IF targetDate <= n THEN addOneUTCDate(targetDate) ELSE targetDate

\* the Date validateAndParse passes to onTimeChange for value at the instant n
targetFor(value, n) ==
    IF trim(value) = <<>> THEN Null
    ELSE IF parseTimeString(value) = Null THEN Null
    ELSE Some(targetDateOf(Get(parseTimeString(value)), n))

handleTimeChangeKeep(time, valid) ==
    /\ targetTime' = time
    /\ isTimeValid' = valid
    /\ isCountdownActive' = isCountdownActive
handleTimeChange(time, valid) ==
    /\ targetTime' = time
    /\ isTimeValid' = valid
    /\ isCountdownActive' = IF ~valid THEN FALSE ELSE isCountdownActive

\* CountdownTimer.tsx: calculateTimeRemaining(targetTime) at the instant c
calculateTimeRemaining(target, c) ==
    LET total == target - c
    IN  IF total <= 0
        THEN [hours |-> 0, minutes |-> 0, seconds |-> 0, total |-> 0]
        ELSE [hours |-> total \div MsPerHour,
              minutes |-> (total % MsPerHour) \div MsPerMinute,
              seconds |-> (total % MsPerMinute) \div 1000,
              total |-> total]

\* updateCountdown of the effect, with the hasCompleted of the render
updateCountdownOf(target, c) ==
    LET remaining == calculateTimeRemaining(Get(target), c)
    IN  /\ timeRemaining' = Some(remaining)
        /\ IF remaining.total <= 0 /\ ~hasCompleted
           THEN /\ hasCompleted' = TRUE
                /\ completions' = Append(completions, Get(target))
           ELSE UNCHANGED <<hasCompleted, completions>>

\* the effect of CountdownTimer after a render of Home with these props
countdownEffect(target, active, c) ==
    IF target = Null \/ ~active
    THEN /\ timeRemaining' = Null
         /\ hasCompleted' = FALSE
         /\ UNCHANGED completions
    ELSE updateCountdownOf(target, c)

\* the interval of the effect fires
updateCountdown ==
    /\ targetTime /= Null
    /\ isCountdownActive
    /\ updateCountdownOf(targetTime, clock)
    /\ UNCHANGED <<clock, timeInputVars, homeVars, smsVars, phoneVars, routeVars, configVars,
                   callVars>>

\* the debounce timer fires: validateAndParse(timeString)
validateAndParse ==
    /\ debounce
    /\ clock >= Get(debounceDue)
    /\ debounce' = FALSE
    /\ debounceDue' = Null
    /\ LET value == timeString
       IN  IF trim(value) = <<>>
           THEN /\ error' = ""
                /\ isValid' = FALSE
                /\ parsed' = Null
                /\ now' = Null
                /\ handleTimeChange(Null, FALSE)
           ELSE /\ parsed' = parseTimeString(value)
                /\ IF parsed' = Null
                   THEN /\ error' = FormatError
                        /\ isValid' = FALSE
                        /\ now' = Null
                        /\ handleTimeChange(Null, FALSE)
                   ELSE /\ now' = Some(clock)
                        /\ error' = ""
                        /\ isValid' = TRUE
                        /\ handleTimeChange(targetFor(value, clock), TRUE)
    /\ countdownEffect(targetTime', isCountdownActive', clock)
    /\ UNCHANGED <<clock, timeString, smsVars, phoneVars, routeVars, configVars, callVars>>

----------------------------------------------------------------------------
(* twilio.ts: scheduleAccessNotifications *)

FiveMinutes == 5 * 60 * 1000
\* "at least 15 minutes in the future", plus the 1 minute buffer
MinimumLead == 16 * 60 * 1000

CredentialsError ==
    "Twilio credentials not configured. Please set TWILIO_ACCOUNT_SID and TWILIO_AUTH_TOKEN."
MessagingServiceError ==
    "TWILIO_MESSAGING_SERVICE_SID not configured. Scheduled messages require a Messaging Service."
MinimumLeadError ==
    "The selected time must be at least 16 minutes in the future for scheduled messages."
FailedPrefix == "Failed to schedule SMS: "

\* what client.messages.create can throw: an Error with the provider's
\* message, or a value that is not an Error
Rejections == {"provider message", "not an Error"}

\* error instanceof Error ? error.message : 'Unknown error occurred'
errorMessage(thrown) ==
    IF thrown = "not an Error" THEN "Unknown error occurred" ELSE thrown

\* the offsets of params.accessTime from the clock of the call
AccessOffsets ==
    {-MsPerMinute, 0, 5 * MsPerMinute, 10 * MsPerMinute, 15 * MsPerMinute,
     16 * MsPerMinute - 1, 16 * MsPerMinute, 16 * MsPerMinute + 1,
     20 * MsPerMinute, 21 * MsPerMinute - 1, 21 * MsPerMinute,
     21 * MsPerMinute + 1, 30 * MsPerMinute, 60 * MsPerMinute}

\* if (fiveMinutesBefore >= minimumScheduleTime)
warningDue(five, minimum) == five >= minimum

\* if (params.accessTime >= minimumScheduleTime)
restoredDueAlways(access, minimum) == TRUE
restoredDue(access, minimum) == access >= minimum

\* return { success: false, error }: the error is a sequence of the strings
\* concatenated to make it; a result without error has <<>>
failure(err) ==
    Some([success |-> FALSE, messageIds |-> <<>>, scheduledMessages |-> <<>>,
          error |-> err])

\* lines 227-239: the result when no dispatch threw
outcomeAnyway(ids, msgs) ==
    [success |-> TRUE, messageIds |-> ids, scheduledMessages |-> msgs, error |-> <<>>]
outcome(ids, msgs) ==
    IF Len(ids) = 0
    THEN Get(failure(<<MinimumLeadError>>))
    ELSE [success |-> TRUE, messageIds |-> ids, scheduledMessages |-> msgs,
          error |-> <<>>]

\* if (!accountSid || !authToken)
credentialsMissingBoth(sid, token) == ~sid /\ ~token
credentialsMissing(sid, token) == ~sid \/ ~token

\* messageIds.push(message.sid)
pushFront(ids, sid) == <<sid>> \o ids
push(ids, sid) == Append(ids, sid)

\* client.messages.create({body, messagingServiceSid, to, scheduleType, sendAt})
createTwice(kind, at) ==
    created' = Append(Append(created, [body |-> kind, sendAt |-> at]),
                      [body |-> kind, sendAt |-> at])
create(kind, at) ==
    created' = Append(created, [body |-> kind, sendAt |-> at])

\* the provider accepts the pending create and returns a message with a new sid
newSid == Len(accepted) + 1
accept == accepted' = Append(accepted, [sid |-> newSid, body |-> created[Len(created)].body,
                                        sendAt |-> created[Len(created)].sendAt])

\* lines 211-239, run with the messageIds and scheduledMessages ids and msgs:
\* the second notification, or the return when it is not due
restoredStep(ids, msgs, access, minimum) ==
    IF restoredDue(access, minimum)
    THEN /\ create("access restored", access)
         /\ pc' = "awaitRestored"
         /\ result' = Null
    ELSE /\ created' = created
         /\ pc' = "returned"
         /\ result' = Some(outcome(ids, msgs))

\* the call, up to its first await or its return
schedule ==
    /\ pc = "idle"
    /\ accessTime /= Null
    /\ IF credentialsMissing(accountSid, authToken)
       THEN /\ result' = failure(<<CredentialsError>>)
            /\ pc' = "returned"
            /\ UNCHANGED <<scheduleNow, fiveMinutesBefore, minimumScheduleTime,
                           messageIds, scheduledMessages, created>>
       ELSE IF ~messagingServiceSid
       THEN /\ result' = failure(<<MessagingServiceError>>)
            /\ pc' = "returned"
            /\ UNCHANGED <<scheduleNow, fiveMinutesBefore, minimumScheduleTime,
                           messageIds, scheduledMessages, created>>
       ELSE /\ messageIds' = <<>>
            /\ scheduledMessages' = <<>>
            /\ scheduleNow' = Some(clock)
            /\ fiveMinutesBefore' = Some(Get(accessTime) - FiveMinutes)
            /\ minimumScheduleTime' = Some(clock + MinimumLead)
            /\ IF warningDue(Get(accessTime) - FiveMinutes, clock + MinimumLead)
               THEN /\ create("5-minute warning", Get(accessTime) - FiveMinutes)
                    /\ pc' = "awaitWarning"
                    /\ result' = Null
               ELSE restoredStep(<<>>, <<>>, Get(accessTime), clock + MinimumLead)
    /\ UNCHANGED <<clock, timeInputVars, homeVars, smsVars, phoneVars, routeVars,
                   countdownVars, configVars, accessTime, accepted>>

\* await client.messages.create(...) of the warning resolves
warningCreated ==
    /\ pc = "awaitWarning"
    /\ accept
    /\ messageIds' = push(messageIds, newSid)
    /\ scheduledMessages' =
           Append(scheduledMessages,
                  [type |-> "5-minute warning", scheduledFor |-> Get(fiveMinutesBefore)])
    /\ restoredStep(messageIds', scheduledMessages', Get(accessTime),
                    Get(minimumScheduleTime))
    /\ UNCHANGED <<clock, timeInputVars, homeVars, smsVars, phoneVars, routeVars,
                   countdownVars, configVars, accessTime, scheduleNow, fiveMinutesBefore,
                   minimumScheduleTime>>

\* a create throws: the catch of lines 240-247
rejected(thrown) ==
    /\ result' = failure(<<FailedPrefix, errorMessage(thrown)>>)
    /\ pc' = "returned"
    /\ UNCHANGED <<clock, timeInputVars, homeVars, smsVars, phoneVars, routeVars,
                   countdownVars, configVars, accessTime, scheduleNow, fiveMinutesBefore,
                   minimumScheduleTime, messageIds, scheduledMessages, created,
                   accepted>>

\* await client.messages.create(...) of the warning rejects
warningRejected ==
    /\ pc = "awaitWarning"
    /\ \E thrown \in Rejections : rejected(thrown)

\* await client.messages.create(...) of the access message resolves
restoredCreated ==
    /\ pc = "awaitRestored"
    /\ accept
    /\ messageIds' = push(messageIds, newSid)
    /\ scheduledMessages' =
           Append(scheduledMessages,
                  [type |-> "access restored", scheduledFor |-> Get(accessTime)])
    /\ result' = Some(outcome(messageIds', scheduledMessages'))
    /\ pc' = "returned"
    /\ UNCHANGED <<clock, timeInputVars, homeVars, smsVars, phoneVars, routeVars,
                   countdownVars, configVars, accessTime, scheduleNow, fiveMinutesBefore,
                   minimumScheduleTime, created>>

\* await client.messages.create(...) of the access message rejects
restoredRejected ==
    /\ pc = "awaitRestored"
    /\ \E thrown \in Rejections : rejected(thrown)

----------------------------------------------------------------------------
(* Specifications *)

timeInputIdle ==
    /\ timeString = <<>>
    /\ error = ""
    /\ isValid = FALSE
    /\ debounce = FALSE
    /\ debounceDue = Null
    /\ parsed = Null
    /\ now = Null

homeIdle ==
    /\ targetTime = Null
    /\ isTimeValid = FALSE
    /\ isCountdownActive = FALSE

smsIdle ==
    /\ phoneNumber = <<>>
    /\ isPhoneValid = FALSE
    /\ isScheduling = FALSE
    /\ smsStatus = [type |-> "null", message |-> ""]
    /\ fetchPending = FALSE
    /\ sent = Null

countdownIdle ==
    /\ timeRemaining = Null
    /\ hasCompleted = FALSE
    /\ completions = <<>>

phoneIdle ==
    /\ phone = <<>>
    /\ isEditing = FALSE
    /\ hasCachedPhone = FALSE
    /\ localStorage = Null

\* no request has been made
routeIdle ==
    /\ body = Null
    /\ routePc = "idle"
    /\ response = Null
    /\ offsetChange = 0

callIdle ==
    /\ pc = "idle"
    /\ scheduleNow = Null
    /\ fiveMinutesBefore = Null
    /\ minimumScheduleTime = Null
    /\ messageIds = <<>>
    /\ scheduledMessages = <<>>
    /\ created = <<>>
    /\ accepted = <<>>
    /\ result = Null

\* the resolver: a string has been typed, the debounce timer is pending
InitResolver ==
    /\ clock \in Clocks
    /\ timeString \in Inputs
    /\ error = ""
    /\ isValid = FALSE
    /\ debounce = TRUE
    /\ debounceDue = Some(clock)
    /\ parsed = Null
    /\ now = Null
    /\ homeIdle
    /\ smsIdle
    /\ countdownIdle
    /\ phoneIdle
    /\ routeIdle
    /\ accountSid = TRUE /\ authToken = TRUE /\ messagingServiceSid = TRUE
    /\ accessTime = Null
    /\ callIdle

NextResolver == validateAndParse

SpecResolver == InitResolver /\ [][NextResolver]_vars

\* the scheduler: one call of scheduleAccessNotifications(params)
InitScheduler ==
    /\ clock \in Clocks
    /\ timeInputIdle
    /\ homeIdle
    /\ smsIdle
    /\ countdownIdle
    /\ phoneIdle
    /\ routeIdle
    /\ accountSid \in BOOLEAN
    /\ authToken \in BOOLEAN
    /\ messagingServiceSid \in BOOLEAN
    /\ accessTime \in {Some(clock + d) : d \in AccessOffsets}
    /\ callIdle

NextScheduler ==
    \/ schedule
    \/ warningCreated
    \/ warningRejected
    \/ restoredCreated
    \/ restoredRejected

SpecScheduler == InitScheduler /\ [][NextScheduler]_vars

----------------------------------------------------------------------------
(* The accepted textual form H[:MM](am|pm), read off the text *)

\* the decimal numerals of n: plain, and padded to two digits
TwoDigits(n) == <<DigitString[(n \div 10) + 1], DigitString[(n % 10) + 1]>>
Numerals(n) == IF n < 10 THEN {<<DigitString[n + 1]>>, TwoDigits(n)} ELSE {TwoDigits(n)}

HourNumerals == UNION {Numerals(h) : h \in 1..12}
MinuteNumerals == {TwoDigits(m) : m \in 0..59}

IsBlank(s) == \A i \in 1..Len(s) : s[i] = " " \/ s[i] = "\t"

\* the text without its blanks, in lower case
Squeeze(s) ==
    LET kept == SelectSeq(s, LAMBDA c : c /= " " /\ c /= "\t")
    IN  [i \in 1..Len(kept) |->
            IF kept[i] = "A" THEN "a"
            ELSE IF kept[i] = "P" THEN "p"
            ELSE IF kept[i] = "M" THEN "m"
            ELSE IF kept[i] = "X" THEN "x"
            ELSE kept[i]]

\* the parts of a squeezed text: what precedes its last two characters, and them
BodyOf(q) == SubSeq(q, 1, Len(q) - 2)
MeridiemOf(q) == SubSeq(q, Len(q) - 1, Len(q))
HasMinutes(b) == Len(b) >= 4 /\ b[Len(b) - 2] = ":"
HourTextOf(b) == IF HasMinutes(b) THEN SubSeq(b, 1, Len(b) - 3) ELSE b
MinuteTextOf(b) == SubSeq(b, Len(b) - 1, Len(b))

WellFormed(s) ==
    LET q == Squeeze(s)
    IN  /\ Len(q) >= 3
        /\ MeridiemOf(q) \in {<<"a", "m">>, <<"p", "m">>}
        /\ HourTextOf(BodyOf(q)) \in HourNumerals
        /\ HasMinutes(BodyOf(q)) => MinuteTextOf(BodyOf(q)) \in MinuteNumerals

\* the hour 1..12, the minute and the meridiem a well-formed text denotes
HourOf(s) == CHOOSE h \in 1..12 : HourTextOf(BodyOf(Squeeze(s))) \in Numerals(h)
MinuteOf(s) ==
    IF HasMinutes(BodyOf(Squeeze(s)))
    THEN CHOOSE m \in 0..59 : MinuteTextOf(BodyOf(Squeeze(s))) = TwoDigits(m)
    ELSE 0
IsPm(s) == MeridiemOf(Squeeze(s)) = <<"p", "m">>

\* 12am is 0, 1am..11am are 1..11, 12pm is 12, 1pm..11pm are 13..23
Hour24(s) == (HourOf(s) % 12) + (IF IsPm(s) THEN 12 ELSE 0)

----------------------------------------------------------------------------
(* The time resolver: claims C1-C5, checked under SpecResolver *)

\* the debounce timer has fired: error, isValid, parsed, now and targetTime
\* are those of validateAndParse(timeString)
Evaluated == ~debounce

\* C1: for every well-formed input H[:MM](am|pm), H in 1..12, MM in 0..59,
\* and every instant now, the target instant validateAndParse publishes is
\* strictly after now.
C1_TargetStrictlyAfterNow ==
    (Evaluated /\ WellFormed(timeString)) =>
        /\ targetTime /= Null
        /\ now /= Null
        /\ Get(targetTime) > Get(now)

\* the input is the time of day that now is at, so that today's candidate
\* equals now, and the target is one day later
C1_Witness ==
    /\ Evaluated
    /\ WellFormed(timeString)
    /\ now /= Null /\ targetTime /= Null
    /\ Get(now) % MsPerDay = Hour24(timeString) * MsPerHour + MinuteOf(timeString) * MsPerMinute
    /\ Get(targetTime) = Get(now) + MsPerDay

\* the candidate of C2: the parsed hour and minute, second 0, on now's UTC date
Candidate(n, hm) ==
    (n \div MsPerDay) * MsPerDay + (hm.hours * 60 + hm.minutes) * MsPerMinute

EightPm == <<"8", "p", "m">>
At(h, m) == (h * 60 + m) * MsPerMinute

\* C2: the target is the candidate (parsed hour and minute on now's UTC date)
\* when the candidate is strictly after now, and otherwise, also when the
\* candidate equals now, the candidate plus exactly one day; at 20:05 "8pm"
\* gives 20:00 of the next day, at 19:55 it gives 20:00 of the same day.
C2_AnchorAndRollover ==
    (Evaluated /\ parsed /= Null) =>
        /\ now /= Null /\ targetTime /= Null
        /\ Get(targetTime) =
              IF Candidate(Get(now), Get(parsed)) > Get(now)
              THEN Candidate(Get(now), Get(parsed))
              ELSE Candidate(Get(now), Get(parsed)) + MsPerDay
        /\ Get(targetTime) - Get(now) <= MsPerDay
        /\ (Squeeze(timeString) = EightPm /\ Get(now) % MsPerDay = At(20, 5)) =>
              Get(targetTime) = Get(now) - (Get(now) % MsPerDay) + MsPerDay + At(20, 0)
        /\ (Squeeze(timeString) = EightPm /\ Get(now) % MsPerDay = At(19, 55)) =>
              Get(targetTime) = Get(now) - (Get(now) % MsPerDay) + At(20, 0)

\* "8pm" evaluated at 20:05: today's 8pm has passed, the target is tomorrow's
C2_Witness ==
    /\ Evaluated
    /\ Squeeze(timeString) = EightPm
    /\ now /= Null /\ targetTime /= Null
    /\ Get(now) % MsPerDay = At(20, 5)
    /\ Get(targetTime) = Get(now) - At(0, 5) + MsPerDay

\* C3: parseTimeString turns the hour and meridiem into the 24-hour hour
\* (12am 0, 1am..11am 1..11, 12pm 12, 1pm..11pm 13..23), the minute is the
\* one written or 0 when omitted, and every result has its hour in 0..23
\* and its minute in 0..59.
C3_TwentyFourHour ==
    Evaluated =>
        /\ WellFormed(timeString) =>
              parsed = Some([hours |-> Hour24(timeString), minutes |-> MinuteOf(timeString)])
        /\ parsed /= Null =>
              /\ Get(parsed).hours \in 0..23
              /\ Get(parsed).minutes \in 0..59

\* 12am with minutes omitted is parsed as hour 0, minute 0
C3_Witness ==
    /\ Evaluated
    /\ Squeeze(timeString) = <<"1", "2", "a", "m">>
    /\ parsed = Some([hours |-> 0, minutes |-> 0])

\* C4: an input that is not of the accepted form yields no target and a
\* non-empty error message, a blank input yields no target and no error
\* message; in both cases the validity is false.
C4_Rejection ==
    (Evaluated /\ ~WellFormed(timeString)) =>
        /\ targetTime = Null
        /\ ~isValid
        /\ ~isTimeValid
        /\ IsBlank(timeString) => error = ""
        /\ ~IsBlank(timeString) => error /= ""

\* "8:75pm" is rejected with the format message
C4_Witness ==
    /\ Evaluated
    /\ Squeeze(timeString) = <<"8", ":", "7", "5", "p", "m">>
    /\ targetTime = Null
    /\ error = FormatError

\* the texts that differ from s in letter case only, in one blank only, or
\* in writing ":00" before the meridiem where s omits the minutes (or the
\* reverse), and the squeezed s without its ":00"
UpperCase(s) ==
    [i \in 1..Len(s) |->
        IF s[i] = "a" THEN "A"
        ELSE IF s[i] = "p" THEN "P"
        ELSE IF s[i] = "m" THEN "M"
        ELSE s[i]]
WithBlankAt(s, k) == SubSeq(s, 1, k) \o <<" ">> \o SubSeq(s, k + 1, Len(s))
ZeroMinutes == <<":", "0", "0">>
HasColon(s) == \E i \in 1..Len(s) : s[i] = ":"
EndsInMeridiem(q) == Len(q) >= 2 /\ MeridiemOf(q) \in {<<"a", "m">>, <<"p", "m">>}
WithZeroMinutes(q) ==
    IF EndsInMeridiem(q) /\ ~HasColon(q)
    THEN {BodyOf(q) \o ZeroMinutes \o MeridiemOf(q)}
    ELSE {}
WithoutZeroMinutes(q) ==
    IF /\ EndsInMeridiem(q)
       /\ Len(q) >= 5
       /\ SubSeq(q, Len(q) - 4, Len(q) - 2) = ZeroMinutes
       /\ ~HasColon(SubSeq(q, 1, Len(q) - 5))
    THEN {SubSeq(q, 1, Len(q) - 5) \o MeridiemOf(q)}
    ELSE {}
Variants(s) ==
    {UpperCase(s), Squeeze(s)}
    \cup {WithBlankAt(s, k) : k \in 0..Len(s)}
    \cup WithZeroMinutes(Squeeze(s))
    \cup WithoutZeroMinutes(Squeeze(s))

\* C5: for the same now, a text that differs from the input only in letter
\* case, in blanks, or in writing ":00" against omitting the minutes resolves
\* to the same target as the input; "8:00 PM" resolves as "8pm" does.
C5_SameMeaning ==
    Evaluated =>
        /\ \A v \in Variants(timeString) : targetFor(v, clock) = targetTime
        /\ timeString = <<"8", ":", "0", "0", " ", "P", "M">> =>
              targetFor(EightPm, clock) = targetTime

\* "8:00 PM" has resolved to a target, the one "8pm" resolves to
C5_Witness ==
    /\ Evaluated
    /\ timeString = <<"8", ":", "0", "0", " ", "P", "M">>
    /\ targetTime /= Null
    /\ EightPm \in Variants(Squeeze(timeString))

----------------------------------------------------------------------------
(* The notification scheduler: claims C6-C10, checked under SpecScheduler *)

WarningKind == "5-minute warning"
RestoredKind == "access restored"

\* the call has returned its result
Returned == pc = "returned"

\* the dispatch capability is usable: the three settings are present
Usable == accountSid /\ authToken /\ messagingServiceSid

\* the instants of one call, from its parameters: warningAt is the target
\* less 5 minutes, minimumLeadTime is the clock of the call plus 16 minutes
Target == Get(accessTime)
CallNow == IF scheduleNow /= Null THEN Get(scheduleNow) ELSE clock
WarningAt == Target - 5 * MsPerMinute
MinimumLeadTime == CallNow + 16 * MsPerMinute
WarningEligible == WarningAt >= MinimumLeadTime
RestoredEligible == Target >= MinimumLeadTime

\* the dispatch calls made for a kind of notification
Requests(kind) == {i \in 1..Len(created) : created[i].body = kind}
Requested(kind) == Requests(kind) /= {}

\* C6: in one call with a usable dispatch capability, the warning is requested
\* if and only if warningAt >= minimumLeadTime, the restored notification if
\* and only if target >= minimumLeadTime, each for exactly warningAt resp.
\* target; for target = now + 20 minutes the one request is the restored one.
C6_RequestedIffEligible ==
    (Returned /\ Usable) =>
        /\ Requested(WarningKind) <=> WarningEligible
        /\ Requested(RestoredKind) <=> RestoredEligible
        /\ \A i \in Requests(WarningKind) : created[i].sendAt = WarningAt
        /\ \A i \in Requests(RestoredKind) : created[i].sendAt = Target
        /\ Target = CallNow + 20 * MsPerMinute =>
              (Len(created) = 1 /\ created[1].body = RestoredKind)

\* C7: when both candidate instants fall before now + L, the call makes no
\* dispatch call and returns a failure whose error is the minimum-lead-time
\* message.
C7_NoEligibleWindow ==
    (Usable /\ pc /= "idle" /\ ~WarningEligible /\ ~RestoredEligible) =>
        /\ created = <<>>
        /\ Returned
        /\ result /= Null
        /\ Get(result).success = FALSE
        /\ Get(result).error = <<MinimumLeadError>>

\* the target is 10 minutes after now, and the call has returned the failure
C7_Witness ==
    /\ Usable
    /\ Returned
    /\ Target = CallNow + 10 * MsPerMinute
    /\ created = <<>>
    /\ Get(result).error = <<MinimumLeadError>>

\* C8: when both notifications are eligible, both are attempted, whatever the
\* outcome of either dispatch.
C8_IndependentDispatch ==
    (Returned /\ Usable /\ WarningEligible /\ RestoredEligible) =>
        /\ Requested(WarningKind)
        /\ Requested(RestoredKind)

\* C9: the outcome carries the identifier of every dispatch the provider
\* accepted in the call, also when another dispatch of the call failed.
C9_AcceptedIdsReturned ==
    Returned =>
        \A i \in 1..Len(accepted) :
            \E j \in 1..Len(Get(result).messageIds) :
                Get(result).messageIds[j] = accepted[i].sid

\* the kind of the message the provider accepted under the identifier sid
KindOf(sid) == (CHOOSE m \in {accepted[i] : i \in 1..Len(accepted)} : m.sid = sid).body

EligibleKinds ==
    (IF WarningEligible THEN <<WarningKind>> ELSE <<>>)
        \o (IF RestoredEligible THEN <<RestoredKind>> ELSE <<>>)

\* C10: success is true if and only if at least one dispatch was attempted
\* and every attempted dispatch succeeded; with success the outcome lists
\* one identifier per eligible notification, one or two, the warning first.
C10_SuccessPolicy ==
    Returned =>
        /\ Get(result).success <=> (Len(created) >= 1 /\ Len(accepted) = Len(created))
        /\ Get(result).success =>
              /\ Len(Get(result).messageIds) \in {1, 2}
              /\ [j \in 1..Len(Get(result).messageIds) |-> KindOf(Get(result).messageIds[j])]
                    = EligibleKinds

\* both dispatches were accepted: success, the warning identifier first
C10_Witness ==
    /\ Returned
    /\ Get(result).success
    /\ Len(Get(result).messageIds) = 2
    /\ KindOf(Get(result).messageIds[1]) = WarningKind
    /\ KindOf(Get(result).messageIds[2]) = RestoredKind

----------------------------------------------------------------------------
(* The notification scheduler: claims C11, C15, C18, checked under SpecScheduler *)

CredentialErrors == {<<CredentialsError>>, <<MessagingServiceError>>}

\* C11: when the account SID, the auth token or the messaging service SID is
\* missing, the call returns a failure without any dispatch call, for every
\* target, and its error is neither the minimum-lead-time error nor a
\* dispatch-failed error; no call with usable settings returns that error.
C11_MissingCredentials ==
    /\ (pc /= "idle" /\ ~Usable) =>
          /\ Returned
          /\ created = <<>>
          /\ accepted = <<>>
          /\ Get(result).success = FALSE
          /\ Get(result).error \in CredentialErrors
          /\ Get(result).error /= <<MinimumLeadError>>
          /\ Get(result).error[1] /= FailedPrefix
    /\ (Returned /\ Usable) => Get(result).error \notin CredentialErrors

\* the account SID is missing and the target is an hour away: no dispatch,
\* the credentials error
C11_Witness ==
    /\ Returned
    /\ ~accountSid /\ authToken /\ messagingServiceSid
    /\ WarningEligible
    /\ created = <<>>
    /\ Get(result).error = <<CredentialsError>>

\* C15: in one call each kind of notification is dispatched at most once, at
\* most two dispatch calls are made, nothing is dispatched after the call
\* has returned (a failed dispatch is not retried), and the call has exactly
\* one outcome: none before it returns, and the same one ever after.
C15_AtMostOncePerKind ==
    /\ [](/\ Cardinality(Requests(WarningKind)) <= 1
          /\ Cardinality(Requests(RestoredKind)) <= 1
          /\ Len(created) <= 2
          /\ Returned <=> result /= Null)
    /\ [][Returned => (created' = created /\ result' = result)]_vars

\* the restored dispatch failed after the warning was accepted: two calls,
\* one outcome
C15_Witness ==
    /\ Returned
    /\ Len(created) = 2
    /\ Len(accepted) = 1
    /\ Get(result).success = FALSE

\* C18: when both notifications are eligible, the restored dispatch is issued
\* only after the warning dispatch was issued and has completed, and on
\* success the identifiers are the warning's first, the restored one's second.
C18_WarningBeforeRestored ==
    /\ (pc /= "idle" /\ Usable /\ WarningEligible /\ Requested(RestoredKind)) =>
          /\ Len(created) = 2
          /\ created[1].body = WarningKind
          /\ created[2].body = RestoredKind
          /\ Len(accepted) >= 1
          /\ accepted[1].body = WarningKind
    /\ (Returned /\ WarningEligible /\ RestoredEligible /\ Get(result).success) =>
          /\ Len(accepted) = 2
          /\ accepted[2].body = RestoredKind
          /\ Get(result).messageIds = <<accepted[1].sid, accepted[2].sid>>

\* the restored dispatch is pending, the warning dispatch has been accepted
C18_Witness ==
    /\ pc = "awaitRestored"
    /\ WarningEligible
    /\ Len(created) = 2
    /\ Len(accepted) = 1
    /\ accepted[1].body = WarningKind

----------------------------------------------------------------------------
(* route.ts: POST /api/schedule-sms *)

MissingFieldsError == "Missing required fields: phoneNumber, accessTime, timezone"
InvalidPhoneError == "Invalid phone number format. Use E.164 format (e.g., +1234567890)"
InvalidTimeError == "Invalid access time format. Use ISO 8601 format."
NotFutureError == "Access time must be in the future."
HorizonError == "Access time must be within 7 days from now (Twilio limitation)."
ServerErrorPrefix == "Server error: "
ScheduledMessage == "SMS notifications scheduled successfully!"

\* the test of /^\+[1-9]\d{least,14}$/ on s
e164Test(s, least) ==
    /\ Len(s) >= 2
    /\ s[1] = "+"
    /\ s[2] \in Digits \ {"0"}
    /\ \A i \in 3..Len(s) : s[i] \in Digits
    /\ Len(s) - 2 >= least
    /\ Len(s) - 2 <= 14

\* phoneRegex.test(body.phoneNumber) with /^\+[1-9]\d{1,14}$/
phoneRegexTest(s) == e164Test(s, 1)

\* a string field of the body: absent (Null) and '' are falsy
truthy(field) == field /= Null /\ Get(field) /= <<>>

\* the text of an access time: <<"iso", t>> is the ISO 8601 text of the
\* instant t (toISOString), <<"text">> a text that is no date, <<>> is ''
\* new Date(text).getTime(), Null for NaN
dateParse(text) == IF text /= <<>> /\ text[1] = "iso" THEN Some(text[2]) ELSE Null
toISOString(t) == <<"iso", t>>

\* sevenDaysFromNow: setDate(getDate() + 7) keeps the local time of day, so
\* the instant is 7 days on, less the change of the UTC offset in between
sevenDaysFromNow(n) == n + 7 * MsPerDay - offsetChange

\* NextResponse.json(...)
reply(status, err) ==
    Some([status |-> status, success |-> FALSE, message |-> "", messageIds |-> <<>>,
          error |-> err])

\* the catch of lines 85-91; a response of Null is a fault that leaves POST
serverErrorUncaught(thrown) == Null
serverError(thrown) == reply(500, <<ServerErrorPrefix, thrown>>)

\* lines 73-84: the response to the result of the scheduler
replyTo(res) ==
    IF res.success
    THEN Some([status |-> 200, success |-> TRUE, message |-> ScheduledMessage,
               messageIds |-> res.messageIds, error |-> <<>>])
    ELSE reply(500, res.error)

\* the request arrives: lines 19-71, up to the call of the scheduler
POST ==
    /\ routePc = "received"
    /\ IF body.json = "malformed"
       THEN /\ response' = serverError("Unexpected token in JSON")
            /\ routePc' = "responded"
            /\ UNCHANGED accessTime
       ELSE IF body.json = "null"
       THEN /\ response' = serverError("Cannot read properties of null")
            /\ routePc' = "responded"
            /\ UNCHANGED accessTime
       ELSE IF ~truthy(body.phoneNumber) \/ ~truthy(body.accessTime) \/ ~truthy(body.timezone)
       THEN /\ response' = reply(400, <<MissingFieldsError>>)
            /\ routePc' = "responded"
            /\ UNCHANGED accessTime
       ELSE IF ~phoneRegexTest(Get(body.phoneNumber))
       THEN /\ response' = reply(400, <<InvalidPhoneError>>)
            /\ routePc' = "responded"
            /\ UNCHANGED accessTime
       ELSE IF dateParse(Get(body.accessTime)) = Null
       THEN /\ response' = reply(400, <<InvalidTimeError>>)
            /\ routePc' = "responded"
            /\ UNCHANGED accessTime
       ELSE IF Get(dateParse(Get(body.accessTime))) <= clock
       THEN /\ response' = reply(400, <<NotFutureError>>)
            /\ routePc' = "responded"
            /\ UNCHANGED accessTime
       ELSE IF Get(dateParse(Get(body.accessTime))) > sevenDaysFromNow(clock)
       THEN /\ response' = reply(400, <<HorizonError>>)
            /\ routePc' = "responded"
            /\ UNCHANGED accessTime
       ELSE /\ accessTime' = dateParse(Get(body.accessTime))
            /\ routePc' = "awaiting"
            /\ response' = Null
    /\ UNCHANGED <<clock, timeInputVars, homeVars, smsVars, phoneVars, body, offsetChange,
                   countdownVars, configVars, pc, scheduleNow, fiveMinutesBefore, minimumScheduleTime,
                   messageIds, scheduledMessages, created, accepted, result>>

\* await scheduleAccessNotifications(...) resolves: lines 73-84
respond ==
    /\ routePc = "awaiting"
    /\ pc = "returned"
    /\ response' = replyTo(Get(result))
    /\ routePc' = "responded"
    /\ UNCHANGED <<clock, timeInputVars, homeVars, smsVars, phoneVars, body, offsetChange,
                   countdownVars, configVars, callVars>>

\* the phone numbers of the request bodies
UsPhone == <<"+", "1", "5", "5", "5", "1", "2", "3", "4", "5", "6", "7">>
SpacedPhone ==
    <<"+", "4", "4", " ", "2", "0", " ", "7", "9", "4", "6", " ", "0", "9", "5", "8">>
BodyPhones ==
    {Null, Some(<<>>), Some(UsPhone), Some(SpacedPhone), Some(<<"+", "1", "2">>),
     Some(<<"5", "5", "5", "1", "2", "3", "4", "5", "6", "7">>),
     Some(<<"+", "0", "1", "2", "3", "4", "5", "6", "7", "8", "9">>)}

\* the offsets of the access time of a body from the clock
BodyOffsets ==
    {-MsPerMinute, 0, 1, 10 * MsPerMinute, 16 * MsPerMinute, 21 * MsPerMinute,
     7 * MsPerDay - MsPerHour - 1, 7 * MsPerDay - MsPerHour, 7 * MsPerDay - MsPerHour + 1,
     7 * MsPerDay - 1, 7 * MsPerDay, 7 * MsPerDay + 1,
     7 * MsPerDay + MsPerHour, 7 * MsPerDay + MsPerHour + 1}

BodyTimes(c) ==
    {Null, Some(<<>>), Some(<<"text">>)} \cup {Some(toISOString(c + d)) : d \in BodyOffsets}

BodyTimezones == {Null, Some(<<>>), Some(<<"U", "T", "C">>)}

Bodies(c) ==
    {[json |-> "malformed", phoneNumber |-> Null, accessTime |-> Null, timezone |-> Null],
     [json |-> "null", phoneNumber |-> Null, accessTime |-> Null, timezone |-> Null]}
    \cup [json : {"object"}, phoneNumber : BodyPhones, accessTime : BodyTimes(c),
          timezone : BodyTimezones]

OffsetChanges == {-MsPerHour, 0, MsPerHour}

\* the endpoint: one request, with the scheduler it calls
InitEndpoint ==
    /\ clock \in {c \in Clocks : c < MsPerDay /\ c % MsPerMinute = 0}
    /\ timeInputIdle
    /\ homeIdle
    /\ smsIdle
    /\ countdownIdle
    /\ phoneIdle
    /\ body \in Bodies(clock)
    /\ routePc = "received"
    /\ response = Null
    /\ offsetChange \in OffsetChanges
    /\ accountSid \in BOOLEAN
    /\ authToken \in BOOLEAN
    /\ messagingServiceSid \in BOOLEAN
    /\ accessTime = Null
    /\ callIdle

NextEndpoint ==
    \/ POST
    \/ respond
    \/ schedule
    \/ warningCreated
    \/ warningRejected
    \/ restoredCreated
    \/ restoredRejected

SpecEndpoint == InitEndpoint /\ [][NextEndpoint]_vars

----------------------------------------------------------------------------
(* Claims about the endpoint *)

Responded == routePc = "responded"
NonEmptyMessage(err) == err /= <<>> /\ \A i \in 1..Len(err) : err[i] /= ""

FieldsPresent ==
    /\ body.json = "object"
    /\ truthy(body.phoneNumber)
    /\ truthy(body.accessTime)
    /\ truthy(body.timezone)
RequestTarget == dateParse(Get(body.accessTime))
BeyondHorizon ==
    /\ FieldsPresent
    /\ phoneRegexTest(Get(body.phoneNumber))
    /\ RequestTarget /= Null
    /\ Get(RequestTarget) > clock + 7 * MsPerDay
Acceptable ==
    /\ FieldsPresent
    /\ phoneRegexTest(Get(body.phoneNumber))
    /\ RequestTarget /= Null
    /\ Get(RequestTarget) > clock
    /\ Get(RequestTarget) <= clock + 7 * MsPerDay
SchedulerInvoked == accessTime /= Null

\* C13: the endpoint invokes the scheduler if and only if the request is
\* acceptable; every other request is answered {success: false, error} with
\* status 400 and no dispatch, a target beyond the 7-day horizon with an
\* error of its own.
C13_InvokesIffAcceptable ==
    routePc /= "received" =>
       /\ SchedulerInvoked <=> Acceptable
       /\ ~Acceptable =>
             /\ Responded
             /\ created = <<>>
             /\ Get(response).status = 400
             /\ ~Get(response).success
             /\ NonEmptyMessage(Get(response).error)
             /\ Get(response).error = <<HorizonError>> <=> BeyondHorizon

\* C14: a failure is answered with status 400 for an input problem and with
\* status 500 only for a dispatch or provider problem (missing credentials,
\* provider rejection); no eligible window is not answered as a system fault.
C14_StatusByKind ==
    (Responded /\ ~Get(response).success) =>
       /\ ~Acceptable => Get(response).status = 400
       /\ Get(response).status \in {400, 500}
       /\ Get(response).status = 500 =>
             \/ Get(response).error \in CredentialErrors
             \/ Get(response).error[1] = FailedPrefix
       /\ Get(response).error = <<MinimumLeadError>> => Get(response).status /= 500

----------------------------------------------------------------------------
(* page.tsx with TimeInput and PhoneInput: the page in the browser *)

MaxWait == 2
DebounceMs == 300
WaitStep == 10 * MsPerMinute
PageStart == (19 * 60 + 55) * MsPerMinute
PageEnd == PageStart + WaitStep

SuccessStatus == "SMS notifications scheduled!"
FailedStatus == "Failed to schedule SMS"
NetworkStatus == "Network error. SMS not scheduled."

\* phone.replace(/\D/g, '')
digitsOf(s) == SelectSeq(s, LAMBDA ch : ch \in Digits)

toE164(s) ==
    LET digits == digitsOf(s)
    IN  IF Len(digits) = 10 THEN <<"+", "1">> \o digits
        ELSE IF Len(digits) = 11 /\ digits[1] = "1" THEN <<"+">> \o digits
        ELSE IF Len(s) >= 1 /\ s[1] = "+" THEN s
        ELSE <<"+">> \o digits

\* isValid of handlePhoneChange: length and /^\+[1-9]\d{9,14}$/
typedValid(e164) == Len(e164) >= 11 /\ e164Test(e164, 9)

\* the validity the mount effect passes to onPhoneChange for a cached number
cachedValid(e164) == Len(e164) >= 11

\* setTimeout(..., 300) of the effect, after the cleanup has cleared the
\* timer of the previous render
setTimerKeep(pending, c) == IF pending /= Null THEN pending ELSE Some(c + DebounceMs)
setTimer(pending, c) == Some(c + DebounceMs)

\* the input of the phone field is rendered
phoneInputShown == isEditing \/ ~hasCachedPhone

\* onChange of the time input: setTimeString, the effect runs again
typeTime(v) ==
    /\ ~isScheduling
    /\ v /= timeString
    /\ timeString' = v
    /\ debounce' = TRUE
    /\ debounceDue' = setTimer(debounceDue, clock)
    /\ UNCHANGED <<clock, error, isValid, parsed, now, homeVars, smsVars, phoneVars,
                   routeVars, countdownVars, configVars, callVars>>

\* onChange of the phone input: handlePhoneChange of PhoneInput and of Home
typePhone(v) ==
    /\ phoneInputShown
    /\ ~isScheduling
    /\ v /= phone
    /\ phone' = v
    /\ phoneNumber' = toE164(v)
    /\ isPhoneValid' = typedValid(toE164(v))
    /\ countdownEffect(targetTime, isCountdownActive, clock)
    /\ UNCHANGED <<clock, timeInputVars, homeVars, isScheduling, smsStatus, fetchPending,
                   sent, isEditing, hasCachedPhone, localStorage, routeVars, configVars,
                   callVars>>

\* blur or Enter in the phone input: handleSave
handleSave ==
    /\ phoneInputShown
    /\ ~isScheduling
    /\ IF Len(toE164(phone)) >= 11
       THEN /\ localStorage' = Some(phone)
            /\ hasCachedPhone' = TRUE
            /\ isEditing' = FALSE
       ELSE UNCHANGED <<localStorage, hasCachedPhone, isEditing>>
    /\ UNCHANGED <<clock, timeInputVars, homeVars, smsVars, phone, routeVars, countdownVars, configVars,
                   callVars>>

\* click on the saved number
handleEdit ==
    /\ ~phoneInputShown
    /\ isEditing' = TRUE
    /\ UNCHANGED <<clock, timeInputVars, homeVars, smsVars, phone, hasCachedPhone,
                   localStorage, routeVars, countdownVars, configVars, callVars>>

\* the request of handleStartCountdown
requestOf(number, target, c) ==
    Some([phoneNumber |-> number, accessTime |-> toISOString(Get(target)), at |-> c])

\* the Start Countdown button, or Enter in the time input
handleStartCountdown ==
    /\ isValid
    /\ ~isScheduling
    /\ IF targetTime = Null \/ ~isTimeValid
       THEN UNCHANGED <<isCountdownActive, isScheduling, smsStatus, fetchPending, sent,
                        countdownVars>>
       ELSE /\ isCountdownActive' = TRUE
            /\ IF isPhoneValid /\ phoneNumber /= <<>>
               THEN /\ isScheduling' = TRUE
                    /\ smsStatus' = [type |-> "null", message |-> ""]
                    /\ fetchPending' = TRUE
                    /\ sent' = requestOf(phoneNumber, targetTime, clock)
               ELSE UNCHANGED <<isScheduling, smsStatus, fetchPending, sent>>
            /\ IF ~isCountdownActive \/ (isPhoneValid /\ phoneNumber /= <<>>)
               THEN countdownEffect(targetTime, TRUE, clock)
               ELSE UNCHANGED countdownVars
    /\ UNCHANGED <<clock, timeInputVars, targetTime, isTimeValid, phoneNumber, isPhoneValid,
                   phoneVars, routeVars, configVars, callVars>>

\* the answers of fetch and response.json(): a body, or a throw
Answers ==
    {[thrown |-> FALSE, success |-> TRUE, error |-> ""],
     [thrown |-> FALSE, success |-> FALSE, error |-> NotFutureError],
     [thrown |-> FALSE, success |-> FALSE, error |-> ""],
     [thrown |-> TRUE, success |-> FALSE, error |-> ""]}

\* smsStatus after the answer: lines 70-78
statusKeep(answer) ==
    IF answer.thrown THEN [type |-> "error", message |-> NetworkStatus]
    ELSE IF answer.success THEN [type |-> "success", message |-> SuccessStatus]
    ELSE [type |-> "error", message |-> answer.error]
statusOf(answer) ==
    IF answer.thrown THEN [type |-> "error", message |-> NetworkStatus]
    ELSE IF answer.success THEN [type |-> "success", message |-> SuccessStatus]
    ELSE [type |-> "error",
          message |-> IF answer.error /= "" THEN answer.error ELSE FailedStatus]

\* the awaits of handleStartCountdown settle: lines 70-81
fetchSettles(answer) ==
    /\ fetchPending
    /\ fetchPending' = FALSE
    /\ smsStatus' = statusOf(answer)
    /\ isScheduling' = FALSE
    /\ countdownEffect(targetTime, isCountdownActive, clock)
    /\ UNCHANGED <<clock, timeInputVars, homeVars, phoneNumber, isPhoneValid, sent,
                   phoneVars, routeVars, configVars, callVars>>

fetchAnswered == \E answer \in Answers : fetchSettles(answer)

\* the page is loaded again: fresh state, the mount effects run
reload ==
    /\ timeString' = <<>>
    /\ error' = ""
    /\ isValid' = FALSE
    /\ debounce' = TRUE
    /\ debounceDue' = setTimer(Null, clock)
    /\ parsed' = Null
    /\ now' = Null
    /\ targetTime' = Null
    /\ isTimeValid' = FALSE
    /\ isCountdownActive' = FALSE
    /\ isScheduling' = FALSE
    /\ smsStatus' = [type |-> "null", message |-> ""]
    /\ fetchPending' = FALSE
    /\ sent' = Null
    /\ IF localStorage /= Null /\ Get(localStorage) /= <<>>
       THEN /\ phone' = Get(localStorage)
            /\ hasCachedPhone' = TRUE
            /\ isEditing' = FALSE
            /\ phoneNumber' = toE164(Get(localStorage))
            /\ isPhoneValid' = cachedValid(toE164(Get(localStorage)))
       ELSE /\ phone' = <<>>
            /\ hasCachedPhone' = FALSE
            /\ isEditing' = TRUE
            /\ phoneNumber' = <<>>
            /\ isPhoneValid' = FALSE
    /\ timeRemaining' = Null
    /\ hasCompleted' = FALSE
    /\ completions' = <<>>
    /\ UNCHANGED <<clock, localStorage, routeVars, configVars, callVars>>

\* time passes: a short wait within a minute, or a long one
shortWait ==
    /\ clock % MsPerMinute < MaxWait * DebounceMs
    /\ clock' = clock + DebounceMs
    /\ UNCHANGED <<timeInputVars, homeVars, smsVars, phoneVars, routeVars, countdownVars, configVars,
                   callVars>>

longWait ==
    /\ clock < PageEnd
    /\ clock' = clock + WaitStep
    /\ UNCHANGED <<timeInputVars, homeVars, smsVars, phoneVars, routeVars, countdownVars, configVars,
                   callVars>>

\* what is typed
PageInputs ==
    {<<>>, <<"8", "p", "m">>, <<"1", "3", "p", "m">>}
PagePhones ==
    {<<>>, <<"5", "5", "5", "1", "2", "3", "4", "5", "6", "7">>, SpacedPhone}

\* the page just loaded in a browser with no saved number
InitPage ==
    /\ clock = PageStart
    /\ timeString = <<>>
    /\ error = ""
    /\ isValid = FALSE
    /\ debounce = TRUE
    /\ debounceDue = setTimer(Null, clock)
    /\ parsed = Null
    /\ now = Null
    /\ homeIdle
    /\ smsIdle
    /\ countdownIdle
    /\ phone = <<>>
    /\ isEditing = TRUE
    /\ hasCachedPhone = FALSE
    /\ localStorage = Null
    /\ routeIdle
    /\ accountSid = TRUE
    /\ authToken = TRUE
    /\ messagingServiceSid = TRUE
    /\ accessTime = Null
    /\ callIdle

NextPage ==
    \/ \E v \in PageInputs : typeTime(v)
    \/ validateAndParse
    \/ \E v \in PagePhones : typePhone(v)
    \/ handleSave
    \/ handleEdit
    \/ handleStartCountdown
    \/ fetchAnswered
    \/ updateCountdown
    \/ reload
    \/ shortWait
    \/ longWait

\* a fetch settles: its promise is resolved or rejected
SpecPage == InitPage /\ [][NextPage]_vars /\ WF_vars(fetchAnswered)

----------------------------------------------------------------------------
(* Claims about the page *)

RequestIssued == sent /= Null
DestinationUsable == isPhoneValid /\ phoneNumber /= <<>>

C19_DebouncedResolution ==
    /\ [][timeString' /= timeString =>
             /\ debounce'
             /\ debounceDue' = Some(clock + DebounceMs)]_vars
    /\ [][(debounce /\ ~debounce') =>
             /\ clock >= Get(debounceDue)
             /\ timeString' = timeString
             /\ targetTime' = targetFor(timeString, clock)
             /\ isTimeValid' = (targetFor(timeString, clock) /= Null)]_vars
    /\ [](Evaluated =>
             /\ isTimeValid <=> targetTime /= Null
             /\ isTimeValid <=> now /= Null
             /\ isTimeValid => targetTime = targetFor(timeString, Get(now))
             /\ ~isTimeValid => targetFor(timeString, clock) = Null)

C19_Witness ==
    /\ Evaluated
    /\ timeString = <<"8", "p", "m">>
    /\ isTimeValid
    /\ Get(now) = PageEnd + DebounceMs
    /\ targetTime = Some(MsPerDay + 20 * MsPerHour)

\* C20: a scheduling attempt is in flight exactly while isScheduling is true;
\* it always ends, and when it has ended isScheduling is false and the SMS
\* status is success or error with a non-empty message, whatever the answer.
C20_AttemptSettles ==
    /\ [](isScheduling <=> fetchPending)
    /\ []((RequestIssued /\ ~fetchPending) =>
             /\ ~isScheduling
             /\ smsStatus.type \in {"success", "error"}
             /\ smsStatus.message /= "")
    /\ fetchPending ~> ~isScheduling

C20_Witness ==
    /\ RequestIssued
    /\ ~fetchPending
    /\ ~isScheduling
    /\ smsStatus = [type |-> "error", message |-> FailedStatus]

----------------------------------------------------------------------------
(* Claims about the order of eligibility *)

RequestedKinds == {created[i].body : i \in 1..Len(created)}

\* C21: in every call, if the warning is eligible then the restored
\* notification is eligible; when the call has returned, the kinds requested
\* are none, the restored one alone, or the warning and the restored one,
\* and every request of the warning is followed by one of the restored one.
C21_RestoredWheneverWarning ==
    /\ (pc /= "idle" /\ WarningEligible) => RestoredEligible
    /\ Returned =>
          /\ RequestedKinds \in {{}, {RestoredKind}, {WarningKind, RestoredKind}}
          /\ \A i \in Requests(WarningKind) : \E j \in Requests(RestoredKind) : i < j

----------------------------------------------------------------------------
(* Claims about the countdown *)

\* C22: in every state of the page the countdown is active only if the
\* validity published by the time input is true and a target is set; a step
\* activates it only with such a target, which it leaves as it is, and an
\* evaluation that finds the input blank or invalid leaves it inactive.
C22_ActiveOnlyWithValidTarget ==
    /\ [](isCountdownActive => (isTimeValid /\ targetTime /= Null))
    /\ [][(~isCountdownActive /\ isCountdownActive') =>
             /\ isTimeValid
             /\ targetTime /= Null
             /\ targetTime' = targetTime]_vars
    /\ [][(debounce /\ ~debounce' /\ targetFor(timeString, clock) = Null) =>
             ~isCountdownActive']_vars

\* a countdown was started with a request, then the input was made invalid
\* and evaluated
C22_Witness ==
    /\ RequestIssued
    /\ Evaluated
    /\ timeString = <<"1", "3", "p", "m">>
    /\ ~isTimeValid
    /\ ~isCountdownActive


\* the "Access Restored!" card is rendered
ShownCompleted == isCountdownActive /\ targetTime /= Null /\ hasCompleted

\* C23: the completed state is shown only while the current target is at or
\* before now, and then the completion callback has been called for that
\* target: a completion left from a target that has been replaced is gone.
C23_CompletedOnlyAtTarget ==
    ShownCompleted =>
       /\ Get(targetTime) <= clock
       /\ completions /= <<>>
       /\ completions[Len(completions)] = Get(targetTime)

====
